---- MODULE Spec2Model ----
(***************************************************************************)
(* Model of paper/manage_players.py: one run of main() over a file system  *)
(* holding players.yml, whitelist.json, server.properties and              *)
(* plugins/KeepInvIndividual/keepInvList.yml, and (SpecProps) repeated     *)
(* direct calls of update_server_properties on one settings file.          *)
(*                                                                         *)
(* Files opened in text mode are sequences of characters.  The settings    *)
(* file is a sequence of tokens: "\n", "\r", the twelve characters         *)
(* "max-players=" taken as one token, and single other characters.         *)
(* whitelist.json and keepInvList.yml hold the value that json.dump /      *)
(* yaml.dump serialise (both dumps are injective on lists of strings and   *)
(* of string-valued two-key mappings, and nothing in the program reads     *)
(* them back).  Participant field values are strings and YAML booleans, as *)
(* in the data model of the specification.  Failures of the file system    *)
(* itself (permissions, undecodable bytes, a full disk) are not modelled.  *)
(***************************************************************************)
EXTENDS Integers, Sequences, FiniteSets, TLC

VARIABLES
    playersYml,   \* players.yml: [kind, list]
    whitelist,    \* whitelist.json: [exists, content]
    props,        \* server.properties: [exists, content]
    keepinv,      \* keepInvList.yml: [exists, content]
    keepinvDir,   \* plugins/KeepInvIndividual exists
    linesep,      \* os.linesep of the platform the script runs on
    players,      \* main's local `players`: [none, list]
    pc,           \* position of main
    raised,       \* the unhandled exception that ended the run, "" if none
    stdout,       \* what has been printed, one tag per print call
    before,       \* the output files as they were before the run / the last call
    runs          \* number of direct calls of update_server_properties made

vars == <<playersYml, whitelist, props, keepinv, keepinvDir, linesep, players,
          pc, raised, stdout, before, runs>>

\* ------------------------------------------------------------------ bounds

MaxPlayers == 2
MaxBytes == 4
MaxRuns == 2

\* ------------------------------------------------------------- characters

LF == "\n"
CR == "\r"
KEY == "max-players="

Chars == {KEY, "x", "1", LF, CR}

RECURSIVE SeqsUpTo(_, _)
SeqsUpTo(S, n) ==
    IF n = 0 THEN {<<>>}
    ELSE LET shorter == SeqsUpTo(S, n - 1)
         IN  shorter \cup {Append(s, x) : s \in {t \in shorter : Len(t) = n - 1}, x \in S}

\* --------------------------------------------------------- participants

\* A participant record of players.yml: a mapping in which each of the three
\* keys may be missing.  A field is <<>> when the key is missing and <<v>>
\* when it is present with value v.
Uuids == {"u1", "u2"}
Names == {"n1", "n2"}

Opt(S) == {<<>>} \cup {<<v>> : v \in S}

Participants ==
    [uuid : Opt(Uuids), name : Opt(Names), keepInventoryEnabled : Opt(BOOLEAN)]

Has(player, key) == player[key] # <<>>
Get(player, key) == player[key][1]

\* ---------------------------------------------------------- load_players

\* What yaml.safe_load makes of players.yml, by kind:
\*   "absent"  the file does not exist
\*   "empty"   the document is empty: safe_load returns None
\*   "nokey"   a mapping without the key 'players'
\*   "null"    a mapping whose key 'players' has no value (None)
\*   "list"    a mapping whose key 'players' holds the sequence `list`
YmlKinds == {"absent", "empty", "nokey", "null", "list"}

\* load_players: [raised, none, list].  data.get on None raises AttributeError;
\* data.get('players', []) returns the key's value, None included.
LoadPlayers(yml) ==
    IF yml.kind = "absent" THEN [raised |-> "", none |-> FALSE, list |-> <<>>]
    ELSE IF yml.kind = "empty" THEN [raised |-> "AttributeError", none |-> FALSE, list |-> <<>>]
    ELSE IF yml.kind = "nokey" THEN [raised |-> "", none |-> FALSE, list |-> <<>>]
    ELSE IF yml.kind = "null" THEN [raised |-> "", none |-> TRUE, list |-> <<>>]
    ELSE [raised |-> "", none |-> FALSE, list |-> yml.list]

\* Mutant of NotPlayers: `if players is None`, an empty list passes.
NotPlayersOnlyNone(p) == p.none

\* `not players` in main: None and the empty list are falsy.
NotPlayers(p) == p.none \/ p.list = <<>>

\* ------------------------------------------------------ generate_whitelist

\* Mutant of WhitelistLoop: whitelist.insert(0, ...) instead of append, and
\* the whole record copied.
RECURSIVE WhitelistLoopPrepending(_, _, _)
WhitelistLoopPrepending(ps, i, acc) ==
    IF i > Len(ps) THEN [raised |-> "", list |-> acc]
    ELSE IF ~Has(ps[i], "uuid") \/ ~Has(ps[i], "name")
         THEN [raised |-> "KeyError", list |-> acc]
         ELSE WhitelistLoopPrepending(ps, i + 1,
                  <<[uuid |-> Get(ps[i], "uuid"), name |-> Get(ps[i], "name")]>> \o acc)

\* The loop of generate_whitelist from position i with `acc` built so far:
\* player['uuid'] and player['name'] raise KeyError on a missing key.
RECURSIVE WhitelistLoop(_, _, _)
WhitelistLoop(ps, i, acc) ==
    IF i > Len(ps) THEN [raised |-> "", list |-> acc]
    ELSE IF ~Has(ps[i], "uuid") \/ ~Has(ps[i], "name")
         THEN [raised |-> "KeyError", list |-> acc]
         ELSE WhitelistLoop(ps, i + 1,
                  Append(acc, [uuid |-> Get(ps[i], "uuid"), name |-> Get(ps[i], "name")]))

\* Mutant of WhitelistFileAfter: the file is opened with 'w' before the loop
\* and each record dumped as it is built.
WhitelistFileOpenedFirst(file, built) == [exists |-> TRUE, content |-> built.list]

\* whitelist.json after generate_whitelist, given the loop's outcome: the file
\* is opened with 'w' and dumped only after the loop has ended without raising.
WhitelistFileAfter(file, built) ==
    IF built.raised # "" THEN file
    ELSE [exists |-> TRUE, content |-> built.list]

\* ------------------------------------------------ update_server_properties

\* open(properties_file, 'r'): universal newlines, "\r\n" and "\r" are read as "\n".
RECURSIVE ReadText(_)
ReadText(bytes) ==
    IF bytes = <<>> THEN <<>>
    ELSE IF bytes[1] = CR
         THEN IF Len(bytes) >= 2 /\ bytes[2] = LF
              THEN <<LF>> \o ReadText(SubSeq(bytes, 3, Len(bytes)))
              ELSE <<LF>> \o ReadText(Tail(bytes))
         ELSE <<bytes[1]>> \o ReadText(Tail(bytes))

\* f.readlines(): the text cut after each "\n"; the last line may lack one.
RECURSIVE ReadLinesFrom(_, _)
ReadLinesFrom(text, cur) ==
    IF text = <<>> THEN (IF cur = <<>> THEN <<>> ELSE <<cur>>)
    ELSE IF Head(text) = LF
         THEN <<Append(cur, LF)>> \o ReadLinesFrom(Tail(text), <<>>)
         ELSE ReadLinesFrom(Tail(text), Append(cur, Head(text)))

ReadLines(bytes) == ReadLinesFrom(ReadText(bytes), <<>>)

\* str(player_count): the decimal digits of n >= 0.
Digits == <<"0", "1", "2", "3", "4", "5", "6", "7", "8", "9">>

RECURSIVE ToDecimal(_)
ToDecimal(n) ==
    IF n < 10 THEN <<Digits[n + 1]>>
    ELSE Append(ToDecimal(n \div 10), Digits[(n % 10) + 1])

\* line.startswith('max-players=')
StartsWithKey(line) == line # <<>> /\ line[1] = KEY

\* Mutant of NewLine: f'max-players={player_count}', no "\n".
NewLineUnterminated(n) == <<KEY>> \o ToDecimal(n)

\* f'max-players={player_count}\n'
NewLine(n) == <<KEY>> \o ToDecimal(n) \o <<LF>>

\* The for loop over enumerate(lines) from index i: the first line that starts
\* with the key is replaced, and the loop breaks.
RECURSIVE ReplaceLoop(_, _, _)
ReplaceLoop(lines, i, n) ==
    IF i > Len(lines) THEN [lines |-> lines, updated |-> FALSE]
    ELSE IF StartsWithKey(lines[i])
         THEN [lines |-> [lines EXCEPT ![i] = NewLine(n)], updated |-> TRUE]
         ELSE ReplaceLoop(lines, i + 1, n)

\* A string written in text mode: each "\n" becomes os.linesep.
RECURSIVE WriteText(_, _)
WriteText(text, sep) ==
    IF text = <<>> THEN <<>>
    ELSE (IF Head(text) = LF THEN sep ELSE <<Head(text)>>) \o WriteText(Tail(text), sep)

\* Mutant of WriteLines: f.write(line + '\n') for each line.
RECURSIVE WriteLinesAddingNewline(_, _)
WriteLinesAddingNewline(lines, sep) ==
    IF lines = <<>> THEN <<>>
    ELSE WriteText(Head(lines), sep) \o sep \o WriteLinesAddingNewline(Tail(lines), sep)

\* f.writelines(lines): the lines one after the other, nothing added.
RECURSIVE WriteLines(_, _)
WriteLines(lines, sep) ==
    IF lines = <<>> THEN <<>>
    ELSE WriteText(Head(lines), sep) \o WriteLines(Tail(lines), sep)

\* update_server_properties on an existing file: content written and `updated`.
Rewrite(bytes, n, sep) ==
    LET r == ReplaceLoop(ReadLines(bytes), 1, n)
    IN  [content |-> WriteLines(r.lines, sep), updated |-> r.updated]

\* --------------------------------------------------- update_keepinv_config

\* Mutant of FlagOf: player.get('keepInventoryEnabled', True).
FlagOfDefaultTrue(player) ==
    IF Has(player, "keepInventoryEnabled") THEN Get(player, "keepInventoryEnabled")
    ELSE TRUE

\* The loop building players_with_keepinv from position i:
\* player.get('keepInventoryEnabled', False) is False for a missing key.
FlagOf(player) ==
    IF Has(player, "keepInventoryEnabled") THEN Get(player, "keepInventoryEnabled")
    ELSE FALSE

RECURSIVE KeepinvLoop(_, _, _)
KeepinvLoop(ps, i, acc) ==
    IF i > Len(ps) THEN [raised |-> "", list |-> acc]
    ELSE IF FlagOf(ps[i])
         THEN IF ~Has(ps[i], "uuid") THEN [raised |-> "KeyError", list |-> acc]
              ELSE KeepinvLoop(ps, i + 1, Append(acc, Get(ps[i], "uuid")))
         ELSE KeepinvLoop(ps, i + 1, acc)

\* Mutant of KeepinvFileAfter: the new identifiers merged into the old list.
KeepinvFileMerged(file, built) ==
    IF built.raised # "" THEN file
    ELSE [exists |-> TRUE, content |-> file.content \o built.list]

\* keepInvList.yml after the dump: opened with 'w', {'players': list} dumped.
KeepinvFileAfter(file, built) ==
    IF built.raised # "" THEN file
    ELSE [exists |-> TRUE, content |-> built.list]

\* ------------------------------------------------------------ file system

Absent == [exists |-> FALSE, content |-> <<>>]

File(c) == [exists |-> TRUE, content |-> c]

\* Output files left by an earlier run over another participant list.
StaleWhitelist == File(<<[uuid |-> "old", name |-> "old"]>>)
StaleKeepinv == File(<<"old">>)

\* Settings files the run of main is tried on: without the key (LF and CRLF
\* lines), with the key once and twice.  SpecProps tries every short file.
PropsSamples ==
    { <<"x", LF>>,
      <<"x", CR, LF>>,
      <<"x", LF, KEY, "1", LF, "x", LF>>,
      <<KEY, "x", LF, KEY, "x">> }

Snapshot == [whitelist |-> whitelist, props |-> props,
             keepinv |-> keepinv, keepinvDir |-> keepinvDir]

LineSeps == {<<LF>>, <<CR, LF>>}

\* ------------------------------------------------------------------- main

\* The state in which main starts: any players.yml, any earlier outputs.
Init ==
    /\ playersYml \in {[kind |-> k, list |-> <<>>] : k \in YmlKinds \ {"list"}}
                      \cup {[kind |-> "list", list |-> l] :
                                l \in SeqsUpTo(Participants, MaxPlayers)}
    /\ whitelist \in {Absent, StaleWhitelist}
    /\ props \in {Absent} \cup {File(c) : c \in PropsSamples}
    /\ keepinv \in {Absent, StaleKeepinv}
    /\ keepinvDir \in {d \in BOOLEAN : keepinv.exists => d}
    /\ linesep \in LineSeps
    /\ players = [none |-> FALSE, list |-> <<>>]
    /\ pc = "load"
    /\ raised = ""
    /\ stdout = <<>>
    /\ before = Snapshot
    /\ runs = 0

\* main up to the first derivation step: the banner, load_players, and the
\* return when there are no players.
Load ==
    /\ pc = "load"
    /\ LET r == LoadPlayers(playersYml)
           warned == IF playersYml.kind = "absent"
                     THEN <<"banner", "warn-players-missing">> ELSE <<"banner">>
       IN  IF r.raised # ""
           THEN /\ raised' = r.raised
                /\ pc' = "error"
                /\ stdout' = stdout \o warned
                /\ UNCHANGED players
           ELSE /\ players' = [none |-> r.none, list |-> r.list]
                /\ raised' = ""
                /\ IF NotPlayers(r)
                   THEN /\ pc' = "exit"
                        /\ stdout' = stdout \o warned \o <<"no-players">>
                   ELSE /\ pc' = "whitelist"
                        /\ stdout' = stdout \o warned \o <<"loaded">>
    /\ UNCHANGED <<playersYml, whitelist, props, keepinv, keepinvDir, linesep,
                   before, runs>>

\* generate_whitelist(players, whitelist_file), called from main.
GenerateWhitelist ==
    /\ pc = "whitelist"
    /\ LET built == WhitelistLoop(players.list, 1, <<>>)
       IN  /\ whitelist' = WhitelistFileAfter(whitelist, built)
           /\ IF built.raised # ""
              THEN /\ raised' = built.raised
                   /\ pc' = "error"
                   /\ UNCHANGED stdout
              ELSE /\ pc' = "properties"
                   /\ stdout' = Append(stdout, "whitelist")
                   /\ UNCHANGED raised
    /\ UNCHANGED <<playersYml, props, keepinv, keepinvDir, linesep, players,
                   before, runs>>

\* The body of update_server_properties(ps, properties_file).
UpdateServerPropertiesBody(ps) ==
    IF ~props.exists
    THEN /\ stdout' = Append(stdout, "warn-props-missing")
         /\ UNCHANGED props
    ELSE LET r == Rewrite(props.content, Len(ps), linesep)
         IN  /\ props' = File(r.content)
             /\ stdout' = Append(stdout, IF r.updated THEN "props-updated"
                                         ELSE "warn-key-missing")

\* update_server_properties(players, properties_file), called from main.
UpdateServerProperties ==
    /\ pc = "properties"
    /\ UpdateServerPropertiesBody(players.list)
    /\ pc' = "keepinv"
    /\ UNCHANGED <<playersYml, whitelist, keepinv, keepinvDir, linesep, players,
                   raised, before, runs>>

\* update_keepinv_config(players, keepinv_file), called from main, and the
\* closing banner.
UpdateKeepinvConfig ==
    /\ pc = "keepinv"
    /\ LET built == KeepinvLoop(players.list, 1, <<>>)
           warned == IF keepinv.exists THEN <<>> ELSE <<"warn-keepinv-missing">>
       IN  /\ keepinvDir' = TRUE
           /\ keepinv' = KeepinvFileAfter(keepinv, built)
           /\ IF built.raised # ""
              THEN /\ raised' = built.raised
                   /\ pc' = "error"
                   /\ stdout' = stdout \o warned
              ELSE /\ pc' = "done"
                   /\ stdout' = stdout \o warned \o <<"keepinv", "completed">>
                   /\ UNCHANGED raised
    /\ UNCHANGED <<playersYml, whitelist, props, linesep, players, before, runs>>

Next ==
    \/ Load
    \/ GenerateWhitelist
    \/ UpdateServerProperties
    \/ UpdateKeepinvConfig

Spec == Init /\ [][Next]_vars

\* --------------------------------- update_server_properties, called directly

\* A participant with every field; the updater reads only the list's length,
\* which is at least 1 when main calls it.
SomePlayer == [uuid |-> <<"u1">>, name |-> <<"n1">>, keepInventoryEnabled |-> <<TRUE>>]

InitProps ==
    /\ playersYml = [kind |-> "absent", list |-> <<>>]
    /\ whitelist = Absent
    /\ props \in {Absent} \cup {File(c) : c \in SeqsUpTo(Chars, MaxBytes)}
    /\ keepinv = Absent
    /\ keepinvDir = FALSE
    /\ linesep \in LineSeps
    /\ players \in {[none |-> FALSE, list |-> [i \in 1..n |-> SomePlayer]] :
                       n \in 1..MaxPlayers}
    /\ pc = "call"
    /\ raised = ""
    /\ stdout = <<>>
    /\ before = Snapshot
    /\ runs = 0

\* One more call of update_server_properties with the same list on the file
\* the previous call left.
CallUpdateServerProperties ==
    /\ pc = "call"
    /\ runs < MaxRuns
    /\ UpdateServerPropertiesBody(players.list)
    /\ before' = Snapshot
    /\ runs' = runs + 1
    /\ UNCHANGED <<playersYml, whitelist, keepinv, keepinvDir, linesep, players,
                   pc, raised>>

NextProps == CallUpdateServerProperties

SpecProps == InitProps /\ [][NextProps]_vars

\* ----------------------------------------------------- claims: vocabulary

Printed(tag) == \E i \in DOMAIN stdout : stdout[i] = tag

Range(f) == {f[i] : i \in DOMAIN f}

\* The participant list players.yml holds, empty when it holds none.
Listed == IF playersYml.kind = "list" THEN playersYml.list ELSE <<>>

Complete(player) == player.uuid # <<>> /\ player.name # <<>>

Flagged(player) == player.keepInventoryEnabled = <<TRUE>>

\* The lines of a file with the terminators they have in the file: a line
\* ends after "\r\n", after "\n" and after a "\r" that no "\n" follows.
RECURSIVE RawLinesFrom(_, _)
RawLinesFrom(bytes, cur) ==
    IF bytes = <<>> THEN (IF cur = <<>> THEN <<>> ELSE <<cur>>)
    ELSE IF bytes[1] = CR /\ Len(bytes) >= 2 /\ bytes[2] = LF
         THEN <<cur \o <<CR, LF>>>> \o RawLinesFrom(SubSeq(bytes, 3, Len(bytes)), <<>>)
    ELSE IF bytes[1] \in {CR, LF}
         THEN <<Append(cur, bytes[1])>> \o RawLinesFrom(Tail(bytes), <<>>)
    ELSE RawLinesFrom(Tail(bytes), Append(cur, bytes[1]))

RawLines(bytes) == RawLinesFrom(bytes, <<>>)

KeyLines(lines) == {i \in DOMAIN lines : lines[i][1] = KEY}

FirstKeyLine(lines) == CHOOSE i \in KeyLines(lines) : \A j \in KeyLines(lines) : i <= j

\* A line without its terminator.
Body(line) == SelectSeq(line, LAMBDA c : c \notin {CR, LF})

EndsWithTerminator(bytes) == bytes # <<>> /\ bytes[Len(bytes)] \in {CR, LF}

\* ------------------------------------------------- claims about a run of main

\* The access-list generation has ended, with or without an error.
PastWhitelist == pc \notin {"load", "whitelist"}

\* The run has ended.
Ended == pc \in {"exit", "done", "error"}

\* C2: for a non-empty participant list whose records all have 'uuid' and
\* 'name', generate_whitelist writes one record per participant, in input
\* order, each with exactly the fields uuid and name of its participant.
C2_WhitelistMirrorsPlayers ==
    (PastWhitelist /\ Listed # <<>> /\ \A i \in DOMAIN Listed : Complete(Listed[i]))
    => /\ Printed("whitelist")
       /\ whitelist.exists
       /\ Len(whitelist.content) = Len(Listed)
       /\ \A i \in DOMAIN Listed :
            /\ DOMAIN whitelist.content[i] = {"uuid", "name"}
            /\ whitelist.content[i].uuid = Listed[i].uuid[1]
            /\ whitelist.content[i].name = Listed[i].name[1]

\* C2 witness: two participants with different uuids and names, one of them
\* carrying a flag, have been written in their order.
C2_Witness ==
    /\ pc = "done"
    /\ Len(Listed) = 2
    /\ Listed[1].uuid = <<"u2">> /\ Listed[2].uuid = <<"u1">>
    /\ Listed[1].name = <<"n1">> /\ Listed[2].name = <<"n2">>
    /\ Listed[1].keepInventoryEnabled = <<TRUE>>
    /\ whitelist.content = <<[uuid |-> "u2", name |-> "n1"], [uuid |-> "u1", name |-> "n2"]>>

\* The positions of the flagged participants, in ascending order, are the
\* positions the written identifiers come from.
FromFlaggedInOrder(ids, ps) ==
    LET flagged == {i \in DOMAIN ps : Flagged(ps[i])}
    IN  /\ Len(ids) = Cardinality(flagged)
        /\ \E f \in [DOMAIN ids -> flagged] :
             /\ \A k, l \in DOMAIN ids : k < l => f[k] < f[l]
             /\ \A k \in DOMAIN ids : ids[k] = ps[f[k]].uuid[1]

DistinctUuids(ps) == \A i, j \in DOMAIN ps : ps[i].uuid = ps[j].uuid => i = j

\* C3: once the access list is written the run reaches update_keepinv_config,
\* which raises nothing and writes, in input order, the uuids of exactly the
\* participants whose 'keepInventoryEnabled' is present and true; a
\* participant (identified by its uuid) is in the list iff its flag is so.
C3_KeepinvIffFlagTrue ==
    (Printed("whitelist") /\ Ended)
    => /\ pc = "done"
       /\ raised = ""
       /\ keepinv.exists
       /\ FromFlaggedInOrder(keepinv.content, Listed)
       /\ DistinctUuids(Listed) =>
            \A i \in DOMAIN Listed :
                (Listed[i].uuid[1] \in Range(keepinv.content)) <=> Flagged(Listed[i])

\* C3 witness: a participant without the flag and one with the flag true.
C3_Witness ==
    /\ pc = "done"
    /\ Len(Listed) = 2
    /\ Listed[1].keepInventoryEnabled = <<>>
    /\ Listed[2].keepInventoryEnabled = <<TRUE>>
    /\ keepinv.content = <<Listed[2].uuid[1]>>

\* players.yml is absent, or holds no participant under 'players'.
NoParticipants ==
    \/ playersYml.kind \in {"absent", "nokey", "null"}
    \/ playersYml.kind = "list" /\ playersYml.list = <<>>

\* C4: when the loader yields no participants, main prints "No players
\* found" and returns without an error, and no output file or directory has
\* been created or modified.
C4_NoPlayersTouchesNothing ==
    (pc # "load" /\ NoParticipants)
    => /\ pc = "exit"
       /\ raised = ""
       /\ stdout[Len(stdout)] = "no-players"
       /\ Snapshot = before

\* C4 witness: players.yml is absent, an old whitelist.json exists and the
\* plugin directory does not.
C4_Witness ==
    /\ pc = "exit"
    /\ playersYml.kind = "absent"
    /\ whitelist = StaleWhitelist
    /\ ~keepinvDir

\* C5: when some participant record lacks 'uuid' or 'name', the run ends
\* with a KeyError in generate_whitelist and no output file has been
\* created, truncated or written; the later steps have not run.
C5_MissingFieldWritesNothing ==
    (PastWhitelist /\ \E i \in DOMAIN Listed : ~Complete(Listed[i]))
    => /\ pc = "error"
       /\ raised = "KeyError"
       /\ Snapshot = before
       /\ stdout[Len(stdout)] = "loaded"

\* C5 witness: the last of two records lacks its name, an old whitelist.json
\* exists.
C5_Witness ==
    /\ pc = "error"
    /\ Len(Listed) = 2
    /\ Complete(Listed[1])
    /\ Listed[2].name = <<>> /\ Listed[2].uuid # <<>>
    /\ whitelist = StaleWhitelist

\* C7: load_players raises nothing and returns an empty sequence when
\* players.yml is missing, has no 'players' key, or is an empty document.
C7_LoadNeverFails ==
    (pc # "load" /\ playersYml.kind \in {"absent", "nokey", "empty"})
    => /\ raised = ""
       /\ players = [none |-> FALSE, list |-> <<>>]

\* No line of the file starts with 'max-players='.
NoKeyLine(bytes) == KeyLines(RawLines(bytes)) = {}

\* C8: when server.properties is missing or has no 'max-players=' line, the
\* capacity step leaves the file's state as it was (not created; content
\* byte-identical) and the run goes on to write keepInvList.yml and ends.
C8_NothingToUpdateLeavesFile ==
    (Printed("whitelist") /\ pc # "properties"
        /\ (~before.props.exists \/ NoKeyLine(before.props.content)))
    => /\ props = before.props
       /\ Ended => (pc = "done" /\ keepinv.exists /\ Printed("keepinv"))

\* The records and identifiers the two overwritten files hold for a list.
WhitelistFor(ps) == [i \in DOMAIN ps |-> [uuid |-> ps[i].uuid[1], name |-> ps[i].name[1]]]

KeepinvFor(ps) == LET flagged == SelectSeq(ps, Flagged)
                  IN  [k \in DOMAIN flagged |-> flagged[k].uuid[1]]

\* C9: after a successful run whitelist.json and keepInvList.yml are
\* functions of the participant list alone, whatever they held before, and
\* nothing of their earlier content is left in them.
C9_OutputsForgetPriorContent ==
    pc = "done"
    => /\ whitelist = File(WhitelistFor(Listed))
       /\ keepinv = File(KeepinvFor(Listed))
       /\ \A r \in Range(before.whitelist.content) :
            r \in Range(whitelist.content) => r \in Range(WhitelistFor(Listed))
       /\ \A u \in Range(before.keepinv.content) :
            u \in Range(keepinv.content) => u \in Range(KeepinvFor(Listed))

\* C9 witness: a run has completed over files that held old entries.
C9_Witness ==
    /\ pc = "done"
    /\ before.whitelist = StaleWhitelist
    /\ before.keepinv = StaleKeepinv
    /\ Len(whitelist.content) = 2
    /\ keepinv.content # <<>>

\* ------------------------------- claims about update_server_properties alone

\* The file the last call was made on existed.
CalledOnFile == runs >= 1 /\ before.props.exists

\* C1: on a file with at least one 'max-players=' line the call changes only
\* the first such line, whose value becomes the decimal participant count;
\* every other line is byte-identical and in its place, and the number of
\* lines is unchanged.
C1_OnlyFirstKeyLineChanges ==
    (CalledOnFile /\ ~NoKeyLine(before.props.content))
    => LET old == RawLines(before.props.content)
           new == RawLines(props.content)
           k == FirstKeyLine(old)
       IN  /\ Len(new) = Len(old)
           /\ Body(new[k]) = <<KEY>> \o ToDecimal(Len(players.list))
           /\ \A i \in DOMAIN old : i # k => new[i] = old[i]

\* C6: a second call with the same participant list leaves the settings file
\* byte-identical to what the first call left (also when the file is missing).
C6_SecondRunChangesNothing ==
    runs >= 2 => props = before.props

\* C6 witness: two calls have been made on a file with the key on its first
\* line and again on its last, unterminated line; the first call rewrote the
\* first of them.
C6_Witness ==
    /\ runs = 2
    /\ Len(players.list) = 2
    /\ props.content = <<KEY, "2", LF, KEY, "x">>

\* C10 as stated: after the call every line of the written file, the last
\* one included, ends with a line terminator.
C10_EveryLineTerminated ==
    (CalledOnFile /\ props.content # <<>>) => EndsWithTerminator(props.content)

\* The last line of the file is its first 'max-players=' line.
LastLineIsReplaced(bytes) ==
    LET lines == RawLines(bytes)
    IN  KeyLines(lines) # {} /\ FirstKeyLine(lines) = Len(lines)

\* Each terminator in the file is sep.
TerminatorsAre(bytes, sep) ==
    \A i \in DOMAIN bytes :
        IF sep = <<LF>> THEN bytes[i] # CR
        ELSE /\ bytes[i] = LF => (i > 1 /\ bytes[i - 1] = CR)
             /\ bytes[i] = CR => (i < Len(bytes) /\ bytes[i + 1] = LF)

\* C10 amended: after the call the file has as many lines as before, every
\* terminator in it is the platform's, whatever it was before, and its last
\* line ends with one exactly when it did before or is the replaced line.
C10_TerminatorsNormalisedNotAdded ==
    CalledOnFile
    => /\ Len(RawLines(props.content)) = Len(RawLines(before.props.content))
       /\ TerminatorsAre(props.content, linesep)
       /\ EndsWithTerminator(props.content)
            <=> (EndsWithTerminator(before.props.content)
                    \/ LastLineIsReplaced(before.props.content))

\* C10 witness: a file with a CRLF line and an unterminated last line has
\* been rewritten with "\n" and still no terminator at its end.
C10_Witness ==
    /\ runs = 1
    /\ before.props.content = <<"x", CR, LF, "x">>
    /\ props.content = <<"x", LF, "x">>

====
